---------------------------- MODULE Spec2Model ----------------------------
(***************************************************************************)
(* Hot-reload coordination of api-deploy: the registry (registry.py), the  *)
(* unit loader and the reload queue consumer (module_loader.py) and the    *)
(* dynamic request endpoints (main.py).                                    *)
(*                                                                         *)
(* Three execution domains are modelled: the asyncio event loop (every     *)
(* segment of a coroutine between two suspension points is one action),    *)
(* the ThreadPoolExecutor's worker threads (every registry access of a     *)
(* load is one action, since a thread switch can fall between any two of   *)
(* them), and the environment (file edits and the watchdog thread).        *)
(* Time is counted in ticks of half a second. The program reads the clock  *)
(* only to compare a difference with the debounce interval, so the model   *)
(* keeps the differences, capped at the interval, instead of the clock.    *)
(***************************************************************************)
EXTENDS Integers, Sequences, FiniteSets, TLC

\* ------------------------------------------------------------------ bounds
MaxCalls == 3      \* change notifications over a run
MaxEdits == 1      \* edits of source files over a run
MaxRequests == 1   \* requests served over a run
MaxLiveCalls == 3  \* change notifications over a run checked for progress
MaxServeCalls == 2 \* change notifications over a run with a request
MaxFileOps == 2    \* files deleted or created over a run
MaxAdminOps == 2   \* admin requests and edits of config.py over a run

\* ------------------------------------------------------- program constants
MinReloadInterval == 2   \* min_reload_interval = 1.0 s, in ticks
MaxWorkers == 3          \* ThreadPoolExecutor(max_workers=3)

\* The smaller of two numbers.
Min(x, y) == IF x < y THEN x ELSE y

\* A time difference one tick later; differences are kept up to the interval.
Later(d) == Min(d + 1, MinReloadInterval)

Units == {"a", "b"}
HandlerNames == {"h1", "h2"}
Methods == {"GET", "POST"}
Workers == 1..MaxWorkers

\* ------------------------------------------------------------ source files
\* The contents a unit's source file can have. "syntax" fails to parse.
Sources == {"v1", "v2", "raises", "syntax"}

\* The @api_function declarations of a source, in the order the import
\* evaluates them: the handler's name and the decorator's GET and POST
\* arguments (decorators.py: GET defaults to False, POST to True).
\* "raises" declares h2 with GET=False, POST=False, which the decorator
\* rejects with a ValueError after h1 has been registered.
Decls(s) ==
    CASE s = "v1" -> << [name |-> "h1", GET |-> FALSE, POST |-> TRUE],
                        [name |-> "h2", GET |-> TRUE,  POST |-> TRUE] >>
      [] s = "v2" -> << [name |-> "h1", GET |-> TRUE,  POST |-> TRUE],
                        [name |-> "h2", GET |-> FALSE, POST |-> TRUE] >>
      [] s = "raises" -> << [name |-> "h1", GET |-> FALSE, POST |-> TRUE],
                            [name |-> "h2", GET |-> FALSE, POST |-> FALSE] >>
      [] OTHER -> << >>

\* decorators.py line 23: a declaration with neither method raises.
DeclRaises(d) == ~d.GET /\ ~d.POST

\* A registry entry {"func": wrapper, "methods": {...}}; the wrapper is
\* identified by the source version that defined it.
NoDesc == [ver |-> "none", GET |-> FALSE, POST |-> FALSE]
DescOf(s, d) == [ver |-> s, GET |-> d.GET, POST |-> d.POST]
NoFns == [h \in HandlerNames |-> NoDesc]
AbsentUnit == [present |-> FALSE, fns |-> NoFns]

RECURSIVE EvalPrefix(_, _, _)
\* The entries an uninterrupted evaluation of source s leaves in an empty
\* unit: every declaration before the first one that raises.
EvalPrefix(s, i, acc) ==
    IF i > Len(Decls(s)) \/ DeclRaises(Decls(s)[i]) THEN acc
    ELSE EvalPrefix(s, i + 1,
             [present |-> TRUE,
              fns |-> [acc.fns EXCEPT ![Decls(s)[i].name] = DescOf(s, Decls(s)[i])]])

LoadedState(s) == EvalPrefix(s, 1, AbsentUnit)

\* Whether an import of s ends with an exception (parse or evaluation);
\* "deleted" stands for a file that is not there.
SourceFails(s) ==
    s \in {"syntax", "deleted"}
      \/ \E i \in 1..Len(Decls(s)) : DeclRaises(Decls(s)[i])

VARIABLES
    source,                \* the unit's file on disk
    registered_functions,  \* APIRegistry.registered_functions
    reload_queue,          \* ModuleLoader.reload_queue
    processing_modules,    \* ModuleLoader.processing_modules
    since_reload,          \* time.time() - last_reload_time.get(u, 0), capped
    consumer,              \* position of _process_reload_queue
    work_queue,            \* the executor's queue of submitted calls
    workers,               \* what each worker thread is executing
    pending,               \* schedule_reload coroutines handed to the loop
    req,                   \* a request in dynamic_api_endpoint
    ops,                   \* the loop reference of the watchdog handler, the
                           \* executor's life cycle, config.py and the
                           \* coroutines and admin request outside the queue
    hist                   \* history of the run, read by the properties only

vars == << source, registered_functions, reload_queue, processing_modules,
           since_reload, consumer, work_queue, workers, pending, req,
           ops, hist >>

\* A worker thread's call: kind and unit name it, pc is the next registry
\* access, src the source the import read, idx the declaration being
\* evaluated; before is the registry when the call started (history).
IdleWorker == [kind |-> "idle", unit |-> "a", pc |-> "idle", src |-> "syntax",
               idx |-> 0, before |-> [u \in Units |-> AbsentUnit]]
\* The consumer: waiting on the queue ("get"), sleeping for another sleep
\* ticks ("sleep"), or awaiting the executor's future ("await").
IdleConsumer == [pc |-> "get", unit |-> "a", sleep |-> 0, done |-> FALSE]
\* snap is the dict get_all_functions builds; insts are the contents the
\* registry has had since the iteration began (history).
IdleReq == [pc |-> "idle", unit |-> "a", handler |-> "h1", method |-> "POST",
            func |-> NoDesc, out |-> "none", seen |-> {}, size |-> 0,
            snap |-> [u \in Units |-> AbsentUnit], insts |-> {}]

\* Per unit: schedule_reload calls so far, those made while the unit was in
\* the processing set, reloads started on the pool, the time since the
\* first call (capped), and whether the calls so far are one burst: the
\* first found the unit neither in flight nor reloaded within the last
\* interval, and every other came less than one interval after the first.
NoHist == [calls |-> 0, inflight |-> 0, execs |-> 0, since_first |-> 0,
           burst |-> TRUE]

\* config.py as a file and as the module loaded from it. "bad" does not
\* parse. Every version that parses lists the same ADMIN_TOKENS.
CfgSources == {"c1", "c2", "bad"}

\* The tokens an administrative request can carry: none, one that is not
\* in ADMIN_TOKENS, one that is (config.py lines 17-20).
Tokens == {"none", "bad", "admin"}
AdminOps == {"reload_all", "reload_config"}

\* An administrative request (/api/reload, /api/reload-config): the
\* operation, the token it carries, where its handler is, and its
\* response: the status, the "success" field and the "modules" list.
\* failed are the units whose load ended in _load_module_sync's except
\* clause (history); done tells that the awaited future is done.
IdleAdmin == [pc |-> "idle", op |-> "reload_all", token |-> "none",
              out |-> "none", success |-> FALSE, modules |-> {},
              failed |-> {}, done |-> FALSE, todo |-> {}]

\* lifespan() has run start_watching on the loop: the handler holds the
\* loop, the observer and the executor run, config.py is loaded as it is,
\* no coroutine outside the queue is waiting and no admin request is open.
\* lifespan() has also given the registry its logger (main.py line 183)
\* before the loop runs anything else.
NoOps == [phase |-> "running", loop |-> TRUE,
          unloads |-> [u \in Units |-> 0], cfgs |-> 0,
          cfgfile |-> "c1", config |-> "c1", admin |-> IdleAdmin,
          logger |-> TRUE]

\* The state once lifespan() has started the server: load_all_modules has
\* imported every unit on the loop's thread (unit b, and unit a unless its
\* file does not parse), the consumer task is started and waits on the
\* empty queue, nothing was reloaded yet.
Init ==
    /\ source \in {f \in [Units -> {"v1", "syntax"}] : f["b"] = "v1"}
    /\ registered_functions = [u \in Units |-> LoadedState(source[u])]
    /\ reload_queue = << >>
    /\ processing_modules = {}
    /\ since_reload = [u \in Units |-> MinReloadInterval]
    /\ consumer = IdleConsumer
    /\ work_queue = << >>
    /\ workers = [w \in Workers |-> IdleWorker]
    /\ pending = [u \in Units |-> 0]
    /\ req = IdleReq
    /\ ops = NoOps
    /\ hist = [unit |-> [u \in Units |-> NoHist], edits |-> 0, events |-> 0,
               reqs |-> 0, dropped |-> 0, raised |-> 0, files |-> 0,
               admins |-> 0, created |-> {}, deleted |-> {}]

\* ----------------------------------------------------- threads and bridge
\* The observer thread delivers notifications from start_watching until
\* stop_watching has stopped and joined it (lines 324, 332-333).
Watching == ops.phase = "running"

\* The loop's own thread, next to the pool's threads: workers[LoopThread]
\* is what it executes while a handler calls the loader directly.
LoopThread == 0

\* The loop's thread is inside load_all_modules, called by a handler.
LoopBusy == LoopThread \in DOMAIN workers /\ workers[LoopThread].kind # "idle"

\* stop_watching is a plain function called on the loop's thread: while
\* executor.shutdown(wait=True) waits (line 337) the loop runs nothing;
\* nor does it while a handler executes a load on the loop's thread.
LoopRuns == ops.phase # "stopping" /\ ~LoopBusy

\* _schedule_async_task line 37: the handler holds a loop that is not
\* closed.
LoopAvailable == ops.loop

\* A bridge whose fallback branch runs the task all the same.
BridgedAnyway(n) == n + 1

\* _schedule_async_task lines 37-49: the number of coroutines of one kind
\* handed to the loop, after one more is submitted through the bridge; with
\* the loop unavailable the submission is dropped with a warning.
Bridged(n) == IF LoopAvailable THEN n + 1 ELSE n

\* The submissions dropped so far, after one more submission (history).
Unbridged(n) == IF LoopAvailable THEN n ELSE n + 1

\* An executor that accepts work after its shutdown.
AcceptsAlways == TRUE

\* run_in_executor raises RuntimeError once executor.shutdown (line 337)
\* has been called.
Accepts == ops.phase = "running"

\* ------------------------------------------------------------- environment
\* The file of unit u is rewritten with contents s; the watchdog thread's
\* on_modified hands schedule_reload(u) to the loop (_schedule_async_task).
EditSource(u, s) ==
    /\ Watching
    /\ source[u] # "deleted"
    /\ s \notin {source[u], "deleted"}
    /\ hist.edits < MaxEdits
    /\ hist.events < MaxCalls
    /\ source' = [source EXCEPT ![u] = s]
    /\ pending' = [pending EXCEPT ![u] = Bridged(@)]
    /\ hist' = [hist EXCEPT !.edits = @ + 1, !.events = @ + 1,
                            !.dropped = Unbridged(@)]
    /\ UNCHANGED << registered_functions, reload_queue, processing_modules,
                    since_reload, consumer, work_queue, workers, req, ops >>

\* The watchdog reports a modified event that changes no contents (a save
\* is commonly reported as several events, and a touch as one): on_modified
\* hands one more schedule_reload(u) to the loop.
on_modified(u) ==
    /\ Watching
    /\ source[u] # "deleted"
    /\ hist.events < MaxCalls
    /\ pending' = [pending EXCEPT ![u] = Bridged(@)]
    /\ hist' = [hist EXCEPT !.events = @ + 1, !.dropped = Unbridged(@)]
    /\ UNCHANGED << source, registered_functions, reload_queue,
                    processing_modules, since_reload, consumer, work_queue,
                    workers, req, ops >>

\* The file of unit u is deleted; on_deleted hands unload_module_async(u)
\* to the loop through the bridge.
DeleteSource(u) ==
    /\ Watching
    /\ source[u] # "deleted"
    /\ hist.files < MaxFileOps
    /\ source' = [source EXCEPT ![u] = "deleted"]
    /\ ops' = [ops EXCEPT !.unloads[u] = Bridged(@)]
    /\ hist' = [hist EXCEPT !.files = @ + 1, !.dropped = Unbridged(@),
                            !.deleted = @ \cup {u}, !.created = @ \ {u}]
    /\ UNCHANGED << registered_functions, reload_queue, processing_modules,
                    since_reload, consumer, work_queue, workers, pending,
                    req >>

\* A file for unit u appears with contents s. on_created calls
\* asyncio.create_task on the observer's thread (line 105), which has no
\* running loop: create_task raises RuntimeError out of the callback and
\* load_module_async is never started.
on_created(u, s) ==
    /\ Watching
    /\ source[u] = "deleted"
    /\ hist.files < MaxFileOps
    /\ source' = [source EXCEPT ![u] = s]
    /\ hist' = [hist EXCEPT !.files = @ + 1, !.raised = @ + 1,
                            !.created = @ \cup {u}, !.deleted = @ \ {u}]
    /\ UNCHANGED << registered_functions, reload_queue, processing_modules,
                    since_reload, consumer, work_queue, workers, pending,
                    req, ops >>

\* time.time() advances by one tick.
Tick ==
    /\ since_reload' = [u \in Units |-> Later(since_reload[u])]
    /\ consumer' = IF consumer.pc = "sleep" /\ consumer.sleep > 0
                   THEN [consumer EXCEPT !.sleep = @ - 1] ELSE consumer
    /\ hist' = [hist EXCEPT !.unit = [u \in Units |->
                 IF hist.unit[u].calls = 0 THEN hist.unit[u]
                 ELSE [hist.unit[u] EXCEPT !.since_first = Later(@)]]]
    /\ UNCHANGED << source, registered_functions, reload_queue,
                    processing_modules, work_queue, workers, pending, req, ops >>

\* -------------------------------------------------------- reload coordinator
\* schedule_reload without the test of line 264: every call enqueues.
AlwaysEnqueue(u) == TRUE

\* A schedule_reload that also drops names while the loop sleeps.
EnqueueUnlessSleeping(u) == u \notin processing_modules /\ consumer.pc # "sleep"

\* schedule_reload line 264: the name is put on the queue unless it is in
\* the processing set.
ShouldEnqueue(u) == u \notin processing_modules

\* schedule_reload, run by the loop. The queue is unbounded, so put() does
\* not suspend and the coroutine is one segment.
schedule_reload(u) ==
    /\ LoopRuns
    /\ pending[u] > 0
    /\ pending' = [pending EXCEPT ![u] = @ - 1]
    /\ reload_queue' = IF ShouldEnqueue(u) THEN Append(reload_queue, u)
                       ELSE reload_queue
    /\ hist' = [hist EXCEPT !.unit[u] =
                 [@ EXCEPT !.calls = @ + 1,
                           !.inflight = IF u \in processing_modules
                                        THEN @ + 1 ELSE @,
                           !.burst = IF hist.unit[u].calls = 0
                                     THEN u \notin processing_modules
                                          /\ since_reload[u] >= MinReloadInterval
                                     ELSE @ /\ hist.unit[u].since_first
                                                  < MinReloadInterval]]
    /\ UNCHANGED << source, registered_functions, processing_modules,
                    since_reload, consumer, work_queue, workers, req, ops >>

\* unload_module_async, run by the loop: _unload_module_sync is submitted
\* to the executor; after the executor's shutdown the submission raises in
\* the coroutine. Nothing reads the coroutine's result.
unload_module_async(u) ==
    /\ LoopRuns
    /\ ops.unloads[u] > 0
    /\ ops' = [ops EXCEPT !.unloads[u] = @ - 1]
    /\ work_queue' = IF Accepts
                     THEN Append(work_queue, [kind |-> "unload", unit |-> u])
                     ELSE work_queue
    /\ UNCHANGED << source, registered_functions, reload_queue,
                    processing_modules, since_reload, consumer, workers,
                    pending, req, hist >>

\* stop_watching lines 331-337, called by lifespan() on the loop's thread:
\* the observer is stopped and joined, then executor.shutdown(wait=True)
\* starts to wait.
StopWatching ==
    /\ ops.phase = "running"
    /\ ops' = [ops EXCEPT !.phase = "stopping"]
    /\ UNCHANGED << source, registered_functions, reload_queue,
                    processing_modules, since_reload, consumer, work_queue,
                    workers, pending, req, hist >>

\* executor.shutdown(wait=True) returns (line 337) once the pool's threads
\* have run every call submitted before it and have ended; the loop runs
\* again.
ShutdownReturns ==
    /\ ops.phase = "stopping"
    /\ work_queue = << >>
    /\ \A w \in Workers : workers[w].kind = "idle"
    /\ ops' = [ops EXCEPT !.phase = "stopped"]
    /\ UNCHANGED << source, registered_functions, reload_queue,
                    processing_modules, since_reload, consumer, work_queue,
                    workers, pending, req, hist >>

\* config.py is rewritten with contents c; on_modified (lines 60-66) hands
\* reload_config_async to the loop through the bridge.
EditConfig(c) ==
    /\ Watching
    /\ c # ops.cfgfile
    /\ ops' = [ops EXCEPT !.cfgfile = c, !.cfgs = Bridged(@)]
    /\ hist' = [hist EXCEPT !.admins = @ + 1, !.dropped = Unbridged(@)]
    /\ UNCHANGED << source, registered_functions, reload_queue,
                    processing_modules, since_reload, consumer, work_queue,
                    workers, pending, req >>

\* reload_config_async started by the bridge: _reload_config_sync is
\* submitted to the executor (the submission raises after its shutdown).
reload_config_async ==
    /\ LoopRuns
    /\ ops.cfgs > 0
    /\ ops' = [ops EXCEPT !.cfgs = @ - 1]
    /\ work_queue' = IF Accepts
                     THEN Append(work_queue,
                                 [kind |-> "config", unit |-> "config"])
                     ELSE work_queue
    /\ UNCHANGED << source, registered_functions, reload_queue,
                    processing_modules, since_reload, consumer, workers,
                    pending, req, hist >>

\* importlib.reload(config): the module takes the file's values, unless the
\* file does not parse.
ConfigReloaded == IF ops.cfgfile = "bad" THEN ops.config ELSE ops.cfgfile

\* A reload of config that waits for a lock that is never released.
ConfigBlocked(w) == FALSE

\* _reload_config_sync takes no lock and waits for nothing.
ConfigUnblocked(w) == TRUE

\* _reload_config_sync lines 278-301 on a pool thread: config is reloaded;
\* an exception is caught and logged.
ReloadConfig(w) ==
    /\ workers[w].pc = "cfg"
    /\ ConfigUnblocked(w)
    /\ workers' = [workers EXCEPT ![w].pc = "done"]
    /\ ops' = [ops EXCEPT !.config = ConfigReloaded]
    /\ UNCHANGED << source, registered_functions, reload_queue,
                    processing_modules, since_reload, consumer, work_queue,
                    pending, req, hist >>

\* verify_admin_token lines 72-92: a missing token is refused; otherwise
\* get_current_config() reloads config on the spot (auth.py lines 4-9),
\* which raises if config.py does not parse, and a token that is not in
\* ADMIN_TOKENS is refused.
Verdict(tok) ==
    IF tok = "none" THEN "401"
    ELSE IF ops.cfgfile = "bad" THEN "500"
    ELSE IF tok # "admin" THEN "401" ELSE "ok"

\* The units whose load by load_all_modules fails: _load_module_sync logs
\* the exception (line 204) and returns nothing.
FailedLoads == {u \in Units : source[u] # "deleted" /\ SourceFails(source[u])}

\* _reload_all_modules line 282: "success" of the response after
\* load_all_modules has returned.
ReloadAllSuccess(failed) == TRUE

\* An administrative request arrives and its handler runs up to its first
\* suspension on the pool or to its response. A request that is not
\* authorized is answered by the exception verify_admin_token raised (an
\* HTTPException is raised again, anything else answered with 500).
\* /api/reload (lines 276-285) clears the registry and imports every unit
\* on the loop's thread, one after the other, and answers success; it is
\* taken while the pool is idle, so that no pool thread runs between its
\* statements. /api/reload-config (line 306) awaits reload_config_async.
AdminRequest(op, tok) ==
    /\ LoopRuns
    /\ ops.admin.pc = "idle"
    /\ hist' = [hist EXCEPT !.admins = @ + 1]
    /\ LET v == Verdict(tok)
           cfg == IF tok = "none" THEN ops.config ELSE ConfigReloaded
           r == [IdleAdmin EXCEPT !.op = op, !.token = tok]
       IN
       IF v # "ok"
       THEN /\ ops' = [ops EXCEPT !.config = cfg,
                         !.admin = [r EXCEPT !.pc = "responded", !.out = v]]
            /\ UNCHANGED << registered_functions, work_queue >>
       ELSE IF op = "reload_all"
       THEN /\ work_queue = << >>
            /\ \A w \in Workers : workers[w].kind = "idle"
            /\ registered_functions' = [u \in Units |-> LoadedState(source[u])]
            /\ ops' = [ops EXCEPT !.config = cfg,
                         !.admin = [r EXCEPT
                            !.pc = "responded", !.out = "200",
                            !.success = ReloadAllSuccess(FailedLoads),
                            !.failed = FailedLoads,
                            !.modules = {u \in Units :
                                LoadedState(source[u]).present}]]
            /\ UNCHANGED work_queue
       ELSE IF Accepts
       THEN /\ work_queue' = Append(work_queue,
                                 [kind |-> "admin_config", unit |-> "config"])
            /\ ops' = [ops EXCEPT !.config = cfg,
                                  !.admin = [r EXCEPT !.pc = "await"]]
            /\ UNCHANGED registered_functions
       ELSE /\ ops' = [ops EXCEPT !.config = cfg,
                         !.admin = [r EXCEPT !.pc = "responded", !.out = "500"]]
            /\ UNCHANGED << registered_functions, work_queue >>
    /\ UNCHANGED << source, reload_queue, processing_modules, since_reload,
                    consumer, workers, pending, req >>

\* _reload_config lines 306-321: the awaited reload is done; the response
\* carries the values of config.
AdminConfigDone ==
    /\ LoopRuns
    /\ ops.admin.pc = "await"
    /\ ops.admin.done
    /\ ops' = [ops EXCEPT !.admin = [@ EXCEPT !.pc = "responded",
                                               !.out = "200",
                                               !.success = TRUE]]
    /\ UNCHANGED << source, registered_functions, reload_queue,
                    processing_modules, since_reload, consumer, work_queue,
                    workers, pending, req, hist >>

\* The response of the administrative request is sent.
AdminClose ==
    /\ LoopRuns
    /\ ops.admin.pc = "responded"
    /\ ops' = [ops EXCEPT !.admin = IdleAdmin]
    /\ UNCHANGED << source, registered_functions, reload_queue,
                    processing_modules, since_reload, consumer, work_queue,
                    workers, pending, req, hist >>

\* _process_reload_queue line 145: the debounce test.
NeedsDebounce(u) == since_reload[u] < MinReloadInterval

\* _process_reload_queue line 147: how long the loop sleeps.
DebounceSleep(u) == MinReloadInterval

\* A dispatch that submits the reload without awaiting it (fire and
\* forget), so that the loop turns to the next name at once.
DispatchNoAwait(u) ==
    /\ processing_modules' = processing_modules \cup {u}
    /\ work_queue' = Append(work_queue, [kind |-> "reload", unit |-> u])
    /\ consumer' = IdleConsumer

\* _process_reload_queue lines 149-159 and 167: the name joins the
\* processing set and _reload_module_sync is submitted to the executor, on
\* which the loop awaits; a name already in the set is only marked done.
\* After the executor's shutdown run_in_executor raises: the name joins and
\* leaves the set (lines 150, 162-165) and no timestamp is set.
Dispatch(u) ==
    IF u \notin processing_modules /\ Accepts
    THEN /\ processing_modules' = processing_modules \cup {u}
         /\ work_queue' = Append(work_queue, [kind |-> "reload", unit |-> u])
         /\ consumer' = [pc |-> "await", unit |-> u, sleep |-> 0, done |-> FALSE]
    ELSE /\ consumer' = IdleConsumer
         /\ UNCHANGED << processing_modules, work_queue >>

\* A queue that hands out the name put last.
QueueGetLast == reload_queue[Len(reload_queue)]

\* _process_reload_queue line 139: asyncio.Queue.get() hands out the name
\* that was put first.
QueueGet == Head(reload_queue)

\* _process_reload_queue lines 139-147: a name is taken from the queue and
\* either dispatched at once or after a sleep.
ConsumerGet ==
    /\ LoopRuns
    /\ consumer.pc = "get"
    /\ reload_queue # << >>
    /\ reload_queue' = Tail(reload_queue)
    /\ LET u == QueueGet IN
         IF NeedsDebounce(u)
         THEN /\ consumer' = [pc |-> "sleep", unit |-> u,
                              sleep |-> DebounceSleep(u), done |-> FALSE]
              /\ UNCHANGED << processing_modules, work_queue >>
         ELSE Dispatch(u)
    /\ UNCHANGED << source, registered_functions, since_reload, workers,
                    pending, req, hist, ops >>

\* asyncio.sleep returns.
ConsumerWake ==
    /\ LoopRuns
    /\ consumer.pc = "sleep"
    /\ consumer.sleep = 0
    /\ Dispatch(consumer.unit)
    /\ UNCHANGED << source, registered_functions, reload_queue,
                    since_reload, workers, pending, req, hist, ops >>

\* A loop that does not wait for the executor's future.
FutureNotAwaited == TRUE

\* The await of line 155 returns once the executor's future is done.
FutureDone == consumer.done

\* A processing set that keeps the name after the reload.
NotDiscarded(u) == processing_modules

\* _process_reload_queue line 165: the finally clause's discard.
Discarded(u) == processing_modules \ {u}

\* A loop that ends after a reload instead of taking the next name.
NoNextRound == [IdleConsumer EXCEPT !.pc = "exit"]

\* _process_reload_queue line 137: while True, the loop waits on the queue
\* again.
NextRound == IdleConsumer

\* _process_reload_queue lines 160-167: the timestamp is set and the name
\* leaves the processing set. _reload_module_sync catches every exception,
\* so the await never raises.
ConsumerDone ==
    /\ LoopRuns
    /\ consumer.pc = "await"
    /\ FutureDone
    /\ since_reload' = [since_reload EXCEPT ![consumer.unit] = 0]
    /\ processing_modules' = Discarded(consumer.unit)
    /\ consumer' = NextRound
    /\ UNCHANGED << source, registered_functions, reload_queue, work_queue,
                    workers, pending, req, hist, ops >>

\* ---------------------------------------------------- worker pool, loader
Busy(w) == workers[w].kind # "idle"

\* Where a call of the pool starts: _reload_module_sync and
\* _unload_module_sync with clear_module_functions, _reload_config_sync
\* with the reload of config.
FirstPc(kind) == IF kind \in {"reload", "unload"} THEN "clear_chk" ELSE "cfg"

\* What follows clear_module_functions: the import in _reload_module_sync
\* (line 253), the return in _unload_module_sync (the module caches it
\* drops, lines 224-230, are not read by a later load's result).
AfterClear(kind) == IF kind = "reload" THEN "read" ELSE "done"

\* An idle thread of the pool takes the oldest submitted call. Threads are
\* interchangeable; the lowest idle one is taken.
WorkerTake(w) ==
    /\ ~Busy(w)
    /\ \A x \in Workers : x < w => Busy(x)
    /\ work_queue # << >>
    /\ work_queue' = Tail(work_queue)
    /\ LET j == Head(work_queue) IN
         /\ workers' = [workers EXCEPT ![w] =
                          [kind |-> j.kind, unit |-> j.unit,
                           pc |-> FirstPc(j.kind),
                           src |-> "syntax", idx |-> 0,
                           before |-> registered_functions]]
         /\ hist' = IF j.kind = "reload"
                    THEN [hist EXCEPT !.unit[j.unit].execs = @ + 1]
                    ELSE hist
    /\ UNCHANGED << source, registered_functions, reload_queue,
                    processing_modules, since_reload, consumer, pending,
                    req, ops >>

\* The request after a pool thread has changed the registry to r: an
\* iteration in progress has one more content to have been taken from
\* (history).
Observed(r) ==
    IF req.pc = "iterate" THEN [req EXCEPT !.insts = @ \cup {r}] ELSE req

\* clear_module_functions line 85: the membership test.
ClearCheck(w) ==
    /\ workers[w].pc = "clear_chk"
    /\ workers' = [workers EXCEPT ![w].pc =
                     IF registered_functions[workers[w].unit].present
                     THEN "clear_del" ELSE AfterClear(workers[w].kind)]
    /\ UNCHANGED << source, registered_functions, reload_queue,
                    processing_modules, since_reload, consumer, work_queue,
                    pending, req, hist, ops >>

\* The registry with every unit dropped (clear_all_functions' clear()).
ClearedAll(u) == [x \in Units |-> AbsentUnit]

\* The registry after del registered_functions[u].
Cleared(u) == [registered_functions EXCEPT ![u] = AbsentUnit]

\* clear_module_functions lines 86-88: the unit's dict is deleted. A name
\* deleted by another thread since the test is a KeyError, which
\* _reload_module_sync catches: the reload ends without loading.
ClearDelete(w) ==
    /\ workers[w].pc = "clear_del"
    /\ IF registered_functions[workers[w].unit].present
       THEN /\ registered_functions' = Cleared(workers[w].unit)
            /\ workers' = [workers EXCEPT ![w].pc = AfterClear(workers[w].kind)]
       ELSE /\ workers' = [workers EXCEPT ![w].pc = "done"]
            /\ UNCHANGED registered_functions
    /\ req' = Observed(registered_functions')
    /\ UNCHANGED << source, reload_queue, processing_modules, since_reload,
                    consumer, work_queue, pending, hist, ops >>

\* _load_module_sync lines 193-198: importlib reads and compiles the file
\* as it is now. A file that does not parse ends the load (the exception is
\* caught at line 203); otherwise its body is evaluated top to bottom.
ReadSource(w) ==
    /\ workers[w].pc = "read"
    /\ LET s == source[workers[w].unit] IN
         workers' = [workers EXCEPT ![w] =
                       [@ EXCEPT !.src = s,
                                 !.idx = IF Decls(s) = << >> THEN 0 ELSE 1,
                                 !.pc = IF Decls(s) = << >> THEN "done"
                                        ELSE "decorate"]]
    /\ UNCHANGED << source, registered_functions, reload_queue,
                    processing_modules, since_reload, consumer, work_queue,
                    pending, req, hist, ops >>

\* The declaration a worker is evaluating.
CurDecl(w) == Decls(workers[w].src)[workers[w].idx]

\* api_function lines 23-24 and register_function lines 35-36: the
\* decorator raises for a declaration without a method (the import fails,
\* caught at line 203); otherwise the unit gets an empty dict if it has none.
RegisterEnsure(w) ==
    /\ workers[w].pc = "decorate"
    /\ IF DeclRaises(CurDecl(w))
       THEN /\ workers' = [workers EXCEPT ![w].pc = "done"]
            /\ UNCHANGED registered_functions
       ELSE /\ workers' = [workers EXCEPT ![w].pc = "store"]
            /\ registered_functions' =
                 IF registered_functions[workers[w].unit].present
                 THEN registered_functions
                 ELSE [registered_functions EXCEPT
                         ![workers[w].unit] = [present |-> TRUE, fns |-> NoFns]]
    /\ req' = Observed(registered_functions')
    /\ UNCHANGED << source, reload_queue, processing_modules, since_reload,
                    consumer, work_queue, pending, hist, ops >>

\* The unit under which the decorator registers (decorators.py lines 40-44:
\* the last component of the function's module).
RegisterUnder(u) == u

\* The registry after register_function line 42 has stored descriptor d as
\* handler h of unit u.
Stored(u, h, d) == [registered_functions EXCEPT ![u].fns[h] = d]

\* register_function lines 42-45: the entry is stored, and the import goes
\* on to the next declaration or returns. A unit deleted by another thread
\* since line 36 is a KeyError, which ends the import.
RegisterStore(w) ==
    /\ workers[w].pc = "store"
    /\ LET u == RegisterUnder(workers[w].unit)
           d == CurDecl(w)
       IN IF registered_functions[u].present
          THEN /\ registered_functions' = Stored(u, d.name, DescOf(workers[w].src, d))
               /\ workers' = [workers EXCEPT ![w] =
                    IF workers[w].idx < Len(Decls(workers[w].src))
                    THEN [@ EXCEPT !.idx = @ + 1, !.pc = "decorate"]
                    ELSE [@ EXCEPT !.pc = "done"]]
          ELSE /\ workers' = [workers EXCEPT ![w].pc = "done"]
               /\ UNCHANGED registered_functions
    /\ req' = Observed(registered_functions')
    /\ UNCHANGED << source, reload_queue, processing_modules, since_reload,
                    consumer, work_queue, pending, hist, ops >>

\* The call of a pool thread returns: the thread is idle again and the
\* future awaited by the consumer, or by _reload_config, is done.
WorkerFinish(w) ==
    /\ workers[w].pc = "done"
    /\ workers' = [workers EXCEPT ![w] = IdleWorker]
    /\ consumer' = IF /\ workers[w].kind = "reload"
                      /\ consumer.pc = "await"
                      /\ consumer.unit = workers[w].unit
                   THEN [consumer EXCEPT !.done = TRUE] ELSE consumer
    /\ ops' = IF workers[w].kind = "admin_config" /\ ops.admin.pc = "await"
              THEN [ops EXCEPT !.admin.done = TRUE] ELSE ops
    /\ UNCHANGED << source, registered_functions, reload_queue,
                    processing_modules, since_reload, work_queue, pending,
                    req, hist >>

\* ------------------------------------------------------------ registry reads
\* get_function lines 57-58: the entry's func, or None (NoDesc).
get_function(u, h) == registered_functions[u].fns[h]

\* str.upper() on the method names a caller can pass (line 68).
Upper(m) ==
    CASE m = "get" -> "GET"
      [] m = "post" -> "POST"
      [] OTHER -> m

\* get_function_methods and supports_method lines 62-68: False when the
\* entry is missing, else the entry's flag for the upper-cased method, and
\* False for a method the entry has no flag for.
supports_method(u, h, m) ==
    LET d == registered_functions[u].fns[h] IN
      IF d = NoDesc THEN FALSE
      ELSE CASE Upper(m) = "GET" -> d.GET
             [] Upper(m) = "POST" -> d.POST
             [] OTHER -> FALSE

PresentUnits == {u \in Units : registered_functions[u].present}

\* ------------------------------------------------------- request endpoints
\* dynamic_api_endpoint / dynamic_api_get_endpoint run on the loop's thread
\* while worker threads run: a thread switch can fall between any two of
\* the endpoint's registry reads. The request carries a valid token and
\* well-formed parameters, and the handler itself does not raise.
\*
\* Lines 344-346 (497-499): the first lookup.
ReqStart(u, h, m) ==
    /\ LoopRuns
    /\ req.pc = "idle"
    /\ hist.reqs < MaxRequests
    /\ req' = [IdleReq EXCEPT !.unit = u, !.handler = h, !.method = m,
                              !.func = get_function(u, h),
                              !.pc = IF get_function(u, h) = NoDesc
                                     THEN "list" ELSE "supports"]
    /\ hist' = [hist EXCEPT !.reqs = @ + 1]
    /\ UNCHANGED << source, registered_functions, reload_queue,
                    processing_modules, since_reload, consumer, work_queue,
                    workers, pending, ops >>

\* Lines 373-384 (526-537): the method check, a second lookup. With the
\* method supported the handler found by the first lookup is called.
ReqSupports ==
    /\ LoopRuns
    /\ req.pc = "supports"
    /\ req' = [req EXCEPT !.pc = "responded",
                          !.out = IF supports_method(req.unit, req.handler, req.method)
                                  THEN "200" ELSE "405"]
    /\ UNCHANGED << source, registered_functions, reload_queue,
                    processing_modules, since_reload, consumer, work_queue,
                    workers, pending, hist, ops >>

\* get_all_functions lines 72-73: the iteration over the registry starts;
\* the dict iterator remembers the dict's size.
ReqListBegin ==
    /\ LoopRuns
    /\ req.pc = "list"
    /\ req' = [req EXCEPT !.pc = "iterate", !.size = Cardinality(PresentUnits),
                          !.seen = {}, !.snap = [u \in Units |-> AbsentUnit],
                          !.insts = {registered_functions}]
    /\ UNCHANGED << source, registered_functions, reload_queue,
                    processing_modules, since_reload, consumer, work_queue,
                    workers, pending, hist, ops >>

\* get_all_functions lines 73-77 and the endpoint's lines 348-370: one step
\* of the iteration. A dict whose size changed since the iteration began
\* raises RuntimeError, which the endpoint answers with 500 (lines 466-487);
\* otherwise the next unit's handlers are copied (the inner loop is taken
\* as one step), and at the end the endpoint answers 404.
ReqListNext ==
    /\ LoopRuns
    /\ req.pc = "iterate"
    /\ IF Cardinality(PresentUnits) # req.size
       THEN req' = [req EXCEPT !.pc = "responded", !.out = "500"]
       ELSE IF PresentUnits \subseteq req.seen
       THEN req' = [req EXCEPT !.pc = "responded", !.out = "404"]
       ELSE \E u \in PresentUnits \ req.seen :
              req' = [req EXCEPT !.seen = @ \cup {u},
                                 !.snap[u] = registered_functions[u]]
    /\ UNCHANGED << source, registered_functions, reload_queue,
                    processing_modules, since_reload, consumer, work_queue,
                    workers, pending, hist, ops >>

\* The response is sent.
ReqClose ==
    /\ LoopRuns
    /\ req.pc = "responded"
    /\ req' = IdleReq
    /\ UNCHANGED << source, registered_functions, reload_queue,
                    processing_modules, since_reload, consumer, work_queue,
                    workers, pending, hist, ops >>

\* ------------------------------------------------------------ specifications
Next ==
    \/ \E u \in Units, s \in Sources : EditSource(u, s)
    \/ \E u \in Units : on_modified(u)
    \/ Tick
    \/ \E u \in Units : schedule_reload(u)
    \/ ConsumerGet
    \/ ConsumerWake
    \/ ConsumerDone
    \/ \E w \in Workers : WorkerTake(w)
    \/ \E w \in Workers : ClearCheck(w)
    \/ \E w \in Workers : ClearDelete(w)
    \/ \E w \in Workers : ReadSource(w)
    \/ \E w \in Workers : RegisterEnsure(w)
    \/ \E w \in Workers : RegisterStore(w)
    \/ \E w \in Workers : WorkerFinish(w)

Spec == Init /\ [][Next]_vars

\* The server with requests arriving: the same steps, in runs with at most
\* MaxServeCalls change notifications, and the steps of a request's
\* endpoint.
NextServe ==
    \/ \E u \in Units, s \in Sources :
           hist.events < MaxServeCalls /\ EditSource(u, s)
    \/ \E u \in Units : hist.events < MaxServeCalls /\ on_modified(u)
    \/ Tick
    \/ \E u \in Units : schedule_reload(u)
    \/ ConsumerGet
    \/ ConsumerWake
    \/ ConsumerDone
    \/ \E w \in Workers : WorkerTake(w)
    \/ \E w \in Workers : ClearCheck(w)
    \/ \E w \in Workers : ClearDelete(w)
    \/ \E w \in Workers : ReadSource(w)
    \/ \E w \in Workers : RegisterEnsure(w)
    \/ \E w \in Workers : RegisterStore(w)
    \/ \E w \in Workers : WorkerFinish(w)
    \/ \E u \in Units, h \in HandlerNames, m \in Methods : ReqStart(u, h, m)
    \/ ReqSupports
    \/ ReqListBegin
    \/ ReqListNext
    \/ ReqClose

SpecServe == Init /\ [][NextServe]_vars

\* The server started with unit a's file in any state that loads, fails
\* to parse or raises half-way.
InitLive ==
    /\ source \in {f \in [Units -> {"v1", "syntax", "raises"}] : f["b"] = "v1"}
    /\ registered_functions = [u \in Units |-> LoadedState(source[u])]
    /\ reload_queue = << >>
    /\ processing_modules = {}
    /\ since_reload = [u \in Units |-> MinReloadInterval]
    /\ consumer = IdleConsumer
    /\ work_queue = << >>
    /\ workers = [w \in Workers |-> IdleWorker]
    /\ pending = [u \in Units |-> 0]
    /\ req = IdleReq
    /\ ops = NoOps
    /\ hist = [unit |-> [u \in Units |-> NoHist], edits |-> 0, events |-> 0,
               reqs |-> 0, dropped |-> 0, raised |-> 0, files |-> 0,
               admins |-> 0, created |-> {}, deleted |-> {}]

\* The steps of the loop and of the pool with at most MaxLiveCalls change
\* notifications, scheduled fairly: the clock advances, the loop runs every
\* coroutine that is ready, and every pool thread that has something to
\* do goes on. Notifications are under no obligation to happen.
NextLive ==
    \/ \E u \in Units : hist.events < MaxLiveCalls /\ on_modified(u)
    \/ Tick
    \/ \E u \in Units : schedule_reload(u)
    \/ ConsumerGet
    \/ ConsumerWake
    \/ ConsumerDone
    \/ \E w \in Workers : WorkerTake(w)
    \/ \E w \in Workers : ClearCheck(w)
    \/ \E w \in Workers : ClearDelete(w)
    \/ \E w \in Workers : ReadSource(w)
    \/ \E w \in Workers : RegisterEnsure(w)
    \/ \E w \in Workers : RegisterStore(w)
    \/ \E w \in Workers : WorkerFinish(w)

Fairness ==
    /\ WF_vars(Tick)
    /\ WF_vars(\E u \in Units : schedule_reload(u))
    /\ WF_vars(ConsumerGet)
    /\ WF_vars(ConsumerWake)
    /\ WF_vars(ConsumerDone)
    /\ WF_vars(\E w \in Workers : WorkerTake(w))
    /\ WF_vars(\E w \in Workers : ClearCheck(w))
    /\ WF_vars(\E w \in Workers : ClearDelete(w))
    /\ WF_vars(\E w \in Workers : ReadSource(w))
    /\ WF_vars(\E w \in Workers : RegisterEnsure(w))
    /\ WF_vars(\E w \in Workers : RegisterStore(w))
    /\ WF_vars(\E w \in Workers : WorkerFinish(w))

SpecLive == InitLive /\ [][NextLive]_vars /\ Fairness

\* ----------------------------------------------------------------- properties
\* The workers executing a reload of unit u, and the reloads of u the
\* consumer has submitted that have not returned.
ReloadsOf(u) == {w \in Workers : workers[w].kind = "reload" /\ workers[w].unit = u}
Submitted(u) == {i \in 1..Len(work_queue) : work_queue[i].unit = u}
InFlight(u) == Cardinality(ReloadsOf(u)) + Cardinality(Submitted(u))
Executing == {w \in Workers : workers[w].kind = "reload"}
InQueue(u) == \E i \in 1..Len(reload_queue) : reload_queue[i] = u

\* Nothing is left to do for unit u: no notification on its way, no queue
\* entry, the consumer not holding it, no reload of it submitted or running.
UnitQuiet(u) ==
    /\ pending[u] = 0
    /\ ~InQueue(u)
    /\ consumer.pc = "get" \/ consumer.unit # u
    /\ InFlight(u) = 0
Quiescent == \A u \in Units : UnitQuiet(u)

\* C1: notifications for one unit that all arrive within less than the
\* debounce interval, the unit neither in flight nor recently reloaded
\* before the first, lead to exactly one reload of the unit.
C1_BurstReloadsOnce ==
    \A u \in Units :
        hist.unit[u].calls >= 1 /\ hist.unit[u].burst /\ UnitQuiet(u)
            => hist.unit[u].execs = 1

\* C2: while a load publishes the handlers of a source that evaluates
\* without error, the registry holds for the unit either no handler or all
\* handlers of that source, never only some of them.
C2_NoPartialPublication ==
    \A w \in Workers :
        /\ workers[w].kind = "reload"
        /\ workers[w].pc \in {"decorate", "store", "done"}
        /\ ~SourceFails(workers[w].src)
        => registered_functions[workers[w].unit].fns
               \in {NoFns, LoadedState(workers[w].src).fns}

\* C3: when a reload whose source fails to parse or evaluate has completed,
\* the registry holds for the unit exactly what it held when the reload
\* started.
C3_FailedReloadKeepsPrevious ==
    \A w \in Workers :
        /\ workers[w].kind = "reload"
        /\ workers[w].pc = "done"
        /\ SourceFails(workers[w].src)
        => registered_functions[workers[w].unit]
               = workers[w].before[workers[w].unit]

\* The reload a worker executes fails or has failed: the file as it is does
\* not load (before the import has read it), or the source read does not.
Failing(w) ==
    /\ workers[w].kind = "reload"
    /\ IF workers[w].pc \in {"clear_chk", "clear_del", "read"}
       THEN SourceFails(source[workers[w].unit])
       ELSE SourceFails(workers[w].src)

\* C4: during and after a failing reload of unit A, every other unit B has
\* exactly the entries it had when the reload started.
C4_FailureLeavesOthers ==
    \A w \in Workers :
        Failing(w) =>
            \A b \in Units \ {workers[w].unit} :
                registered_functions[b] = workers[w].before[b]

\* C4's case: a reload of A has failed while another unit has handlers.
C4_Witness ==
    \E w \in Workers :
        /\ Failing(w) /\ workers[w].pc = "done"
        /\ workers[w].before[workers[w].unit].present
        /\ \E b \in Units \ {workers[w].unit} :
               registered_functions[b] = LoadedState("v1")

\* C5: once no notification is on its way and all queued and in-flight
\* work has completed, the handlers registered for every unit are those of
\* its source as it is now.
C5_LatestSourceWins ==
    Quiescent =>
        \A u \in Units : registered_functions[u] = LoadedState(source[u])

\* C6: at most one reload of a unit name is submitted or executing, and
\* only while the name is in the processing set.
C6_OneReloadPerUnit ==
    \A u \in Units :
        /\ InFlight(u) <= 1
        /\ InFlight(u) = 1 => u \in processing_modules

\* C6's case: a reload of a unit executes while another notification for
\* the same unit waits in the queue.
C6_Witness ==
    \E u \in Units : ReloadsOf(u) # {} /\ InQueue(u)

\* C7: two schedule_reload calls made while the unit's reload (started by
\* one earlier call) is in flight are followed by exactly one more reload.
C7_OneMoreReload ==
    \A u \in Units :
        /\ hist.unit[u].calls = 1 + 2
        /\ hist.unit[u].inflight = 2
        /\ UnitQuiet(u)
        => hist.unit[u].execs = 1 + 1

\* C8: a schedule_reload(u) call leaves the processing set, the timestamps
\* and the registry unchanged; with u in the processing set it leaves the
\* queue unchanged too, and otherwise appends u to the queue's tail.
C8_ScheduleFrame ==
    [][\A u \in Units :
         hist'.unit[u].calls = hist.unit[u].calls + 1 =>
            /\ UNCHANGED << processing_modules, since_reload,
                            registered_functions >>
            /\ reload_queue' = IF u \in processing_modules THEN reload_queue
                               ELSE Append(reload_queue, u)]_vars

\* C8's case: a call was made while its unit was in the processing set.
C8_Witness ==
    \E u \in Units : hist.unit[u].inflight > 0 /\ u \in processing_modules

\* A reload of one unit is executing, the name of another unit is next in
\* the queue, and at least one worker thread is idle.
SecondUnitWaits ==
    \E w \in Executing :
        /\ reload_queue # << >>
        /\ Head(reload_queue) # workers[w].unit
        /\ \E x \in Workers : ~Busy(x)

DuringReload ==
    /\ req.pc # "idle"
    /\ req.unit \in processing_modules
    /\ req.method = "POST"

\* C10: a request for a method every version of the handler supports, made
\* while its unit is being reloaded, is served or answered not-found, never
\* method-not-allowed or internal error.
C10_ServedOrNotFound ==
    DuringReload /\ req.pc = "responded" => req.out \in {"200", "404"}

\* The files of the units are deleted, created and modified, MaxFileOps
\* times in all, and the server is shut down. start_watching may have run
\* without a running loop (lines 312-316), which leaves the handler
\* without loop reference.
InitFiles ==
    /\ source \in {f \in [Units -> {"v1", "syntax"}] : f["b"] = "v1"}
    /\ registered_functions = [u \in Units |-> LoadedState(source[u])]
    /\ reload_queue = << >>
    /\ processing_modules = {}
    /\ since_reload = [u \in Units |-> MinReloadInterval]
    /\ consumer = IdleConsumer
    /\ work_queue = << >>
    /\ workers = [w \in Workers |-> IdleWorker]
    /\ pending = [u \in Units |-> 0]
    /\ req = IdleReq
    /\ ops \in {[NoOps EXCEPT !.loop = l] : l \in BOOLEAN}
    /\ hist = [unit |-> [u \in Units |-> NoHist], edits |-> 0, events |-> 0,
               reqs |-> 0, dropped |-> 0, raised |-> 0, files |-> 0,
               admins |-> 0, created |-> {}, deleted |-> {}]

NextFiles ==
    \/ \E u \in Units :
           hist.events + hist.files < MaxFileOps /\ on_modified(u)
    \/ \E u \in Units :
           hist.events + hist.files < MaxFileOps /\ DeleteSource(u)
    \/ \E u \in Units, s \in Sources :
           hist.events + hist.files < MaxFileOps /\ on_created(u, s)
    \/ Tick
    \/ \E u \in Units : schedule_reload(u)
    \/ \E u \in Units : unload_module_async(u)
    \/ ConsumerGet
    \/ ConsumerWake
    \/ ConsumerDone
    \/ StopWatching
    \/ ShutdownReturns
    \/ \E w \in Workers : WorkerTake(w)
    \/ \E w \in Workers : ClearCheck(w)
    \/ \E w \in Workers : ClearDelete(w)
    \/ \E w \in Workers : ReadSource(w)
    \/ \E w \in Workers : RegisterEnsure(w)
    \/ \E w \in Workers : RegisterStore(w)
    \/ \E w \in Workers : WorkerFinish(w)

SpecFiles == InitFiles /\ [][NextFiles]_vars

\* Administration: config.py is edited and administrative requests arrive,
\* MaxAdminOps times in all together with the change notifications, while
\* the loop and the pool are scheduled fairly.
NextAdmin ==
    \/ \E u \in Units :
           hist.events + hist.admins < MaxAdminOps /\ on_modified(u)
    \/ \E c \in CfgSources :
           hist.events + hist.admins < MaxAdminOps /\ EditConfig(c)
    \/ \E op \in AdminOps, tok \in Tokens :
           hist.events + hist.admins < MaxAdminOps /\ AdminRequest(op, tok)
    \/ Tick
    \/ \E u \in Units : schedule_reload(u)
    \/ reload_config_async
    \/ AdminConfigDone
    \/ AdminClose
    \/ ConsumerGet
    \/ ConsumerWake
    \/ ConsumerDone
    \/ \E w \in Workers : WorkerTake(w)
    \/ \E w \in Workers : ClearCheck(w)
    \/ \E w \in Workers : ClearDelete(w)
    \/ \E w \in Workers : ReadSource(w)
    \/ \E w \in Workers : RegisterEnsure(w)
    \/ \E w \in Workers : RegisterStore(w)
    \/ \E w \in Workers : ReloadConfig(w)
    \/ \E w \in Workers : WorkerFinish(w)

FairnessAdmin ==
    /\ Fairness
    /\ WF_vars(reload_config_async)
    /\ WF_vars(AdminConfigDone)
    /\ WF_vars(AdminClose)
    /\ WF_vars(\E w \in Workers : ReloadConfig(w))

SpecAdmin == Init /\ [][NextAdmin]_vars /\ FairnessAdmin

\* A reload of config is on its way to the pool, submitted, running, or
\* awaited by an administrative request.
ConfigInFlight ==
    \/ ops.cfgs > 0
    \/ ops.admin.pc = "await"
    \/ \E i \in 1..Len(work_queue) :
          work_queue[i].kind \in {"config", "admin_config"}
    \/ \E w \in Workers : workers[w].kind \in {"config", "admin_config"}

\* Nothing is left to do for unit u, the calls outside the queue included:
\* no unload of it is on its way to the pool or running there.
UnitSettled(u) ==
    /\ UnitQuiet(u)
    /\ ops.unloads[u] = 0
    /\ \A w \in Workers : workers[w].kind = "idle" \/ workers[w].unit # u

\* C11: the step in which the consumer resumes after a reload, failed or
\* not, removes the unit's name from the processing set and sets its
\* timestamp to that moment; a finished reload is always followed by that
\* step, and no name stays in the processing set forever.
C11_ReloadAlwaysCleansUp ==
    /\ [][consumer.pc = "await" /\ consumer'.pc # "await" =>
            /\ consumer.unit \notin processing_modules'
            /\ since_reload'[consumer.unit] = 0]_vars
    /\ \A u \in Units :
          /\ (consumer.pc = "await" /\ consumer.unit = u /\ consumer.done)
                ~> (u \notin processing_modules /\ since_reload[u] = 0)
          /\ (u \in processing_modules) ~> (u \notin processing_modules)

\* C11's case: a reload that failed has returned and the consumer has not
\* resumed yet.
C11_Witness ==
    \E w \in Workers :
        /\ Failing(w) /\ workers[w].pc = "done"
        /\ consumer.pc = "await" /\ consumer.unit = workers[w].unit
        /\ workers[w].unit \in processing_modules

\* C12: every name in the queue is eventually dequeued and its reload
\* dispatched, whatever reloads failed before it.
C12_QueuedIsDispatched ==
    \A u \in Units : InQueue(u) ~> (u \in processing_modules)

\* C12's case: the reload of one unit has failed while the name of another
\* unit waits in the queue behind it.
C12_Witness ==
    \E w \in Workers :
        /\ Failing(w) /\ workers[w].pc = "done"
        /\ \E u \in Units \ {workers[w].unit} : InQueue(u)

\* C13: once a deleted notification for a unit has been handled and all
\* work for the unit has completed, its file still deleted, the registry
\* holds no handler of the unit.
C13_DeletedUnitIsGone ==
    \A u \in Units :
        /\ u \in hist.deleted /\ source[u] = "deleted"
        /\ ops.loop /\ ops.phase = "running"
        /\ UnitSettled(u)
        => registered_functions[u].fns = NoFns

\* C14: a created notification returns without error, and once nothing is
\* left to do for the unit the handlers of its source, if the source
\* evaluates, are registered.
C14_CreatedUnitIsLoaded ==
    /\ hist.raised = 0
    /\ \A u \in hist.created :
          ops.loop /\ ops.phase = "running" /\ UnitSettled(u)
              /\ ~SourceFails(source[u])
          => registered_functions[u] = LoadedState(source[u])

C16_ShutdownDrains ==
    /\ [](ops.phase = "stopped" =>
             /\ work_queue = << >>
             /\ \A w \in Workers : workers[w].kind = "idle"
             /\ consumer.pc = "await" => consumer.done)
    /\ [][ops.phase # "running" => Len(work_queue') <= Len(work_queue)]_vars

\* C16's case: shutdown has returned after a reload that was in flight
\* when it began, with another name still in the queue.
C16_Witness ==
    /\ ops.phase = "stopped"
    /\ consumer.pc = "await"
    /\ reload_queue # << >>

\* C17: a reload of config issued while the reload of a unit is in flight
\* is followed by a state in which neither is in flight any more, the
\* processing set is empty, nothing is left to do and every unit's
\* registration is that of its source.
C17_ConfigReloadSettles ==
    (ConfigInFlight /\ processing_modules # {})
      ~> /\ ~ConfigInFlight
         /\ processing_modules = {}
         /\ Quiescent
         /\ \A x \in Units :
               registered_functions[x] = LoadedState(source[x])

\* C17's case: one pool thread reloads config while another reloads a unit.
C17_Witness ==
    \E w, x \in Workers :
        /\ workers[w].kind \in {"config", "admin_config"}
        /\ workers[w].pc = "cfg"
        /\ workers[x].kind = "reload"
        /\ workers[x].unit \in processing_modules

\* C18: the response of an administrative reload of all units during which
\* some unit failed to load tells so (it is not the response of a fully
\* successful reload), and every unit that loaded has all the handlers of
\* its source registered.
C18_ReloadAllReportsFailure ==
    ops.admin.pc = "responded" /\ ops.admin.op = "reload_all"
        /\ ops.admin.out = "200"
    => /\ ops.admin.failed # {} => ~ops.admin.success
       /\ \A u \in Units \ ops.admin.failed :
             registered_functions[u] = LoadedState(source[u])

\* C19: the step that answers an administrative request without a valid
\* admin token answers with an authorization error and leaves the registry
\* and the pool as they are: nothing is cleared, loaded or dispatched.
C19_UnauthorizedRejected ==
    [][ops.admin.pc = "idle" /\ ops'.admin.pc # "idle"
          /\ ops'.admin.token # "admin"
       => /\ ops'.admin.pc = "responded"
          /\ ops'.admin.out = "401"
          /\ UNCHANGED << registered_functions, work_queue, workers,
                          reload_queue, processing_modules >>]_vars

\* C20: a listing of the registry made while pool threads register and
\* clear never fails, and what it returns is the content the registry had
\* at one instant between its call and its return.
C20_ListingIsSnapshot ==
    req.func = NoDesc /\ req.pc = "responded"
        => /\ req.out # "500"
           /\ req.snap \in req.insts


\* ------------------------------------------------------ the registry's API
\* The registry taken alone: one caller makes whole calls of its methods,
\* one after the other, on a registry that starts as APIRegistry() builds
\* it (no unit, no logger).

\* The wrappers a caller registers, identified like a source's version.
Funcs == {"v1", "v2"}

\* The supported_methods argument of register_function, and the GET and
\* POST arguments of the decorator: not given, or the two flags.
NoMethods == [given |-> FALSE, GET |-> FALSE, POST |-> FALSE]
MethodArgs ==
    {NoMethods, [given |-> TRUE, GET |-> TRUE, POST |-> TRUE],
                [given |-> TRUE, GET |-> TRUE, POST |-> FALSE]}
DecoratorArgs == MethodArgs \cup {[given |-> TRUE, GET |-> FALSE, POST |-> FALSE]}

\* The method names a caller asks supports_method about.
MethodNames == {"GET", "POST", "get", "DELETE"}

DefaultMethodsGet == [GET |-> TRUE, POST |-> FALSE]

\* register_function lines 39-40: supported_methods=None means POST only.
DefaultMethods == [GET |-> FALSE, POST |-> TRUE]

\* The methods dict register_function stores for argument m.
MethodsOf(m) ==
    IF m.given THEN [GET |-> m.GET, POST |-> m.POST] ELSE DefaultMethods

\* The flags the decorator passes on (decorators.py line 6: GET=False,
\* POST=True unless given; line 48: always passed explicitly).
DecoratorFlags(m) ==
    IF m.given THEN m ELSE [given |-> TRUE, GET |-> FALSE, POST |-> TRUE]

\* The entry {"func": f, "methods": ...} of lines 42-45.
Entry(f, m) == [ver |-> f, GET |-> MethodsOf(m).GET, POST |-> MethodsOf(m).POST]

RegisteredFirstWins(u, h, d) ==
    [registered_functions EXCEPT ![u] =
       [present |-> TRUE,
        fns |-> IF @.fns[h] = NoDesc THEN [@.fns EXCEPT ![h] = d] ELSE @.fns]]

\* The registry after a whole call of register_function (lines 35-45):
\* the unit has a dict and the dict has d under h.
Registered(u, h, d) ==
    [registered_functions EXCEPT ![u] =
       [present |-> TRUE, fns |-> [@.fns EXCEPT ![h] = d]]]

NotCleared(u) == registered_functions

\* The registry after a whole call of clear_module_functions (lines 85-88).
ClearedUnit(u) ==
    IF registered_functions[u].present
    THEN [registered_functions EXCEPT ![u] = AbsentUnit]
    ELSE registered_functions

EventAlways(e) == e

\* What a method hands to the logger: the event, if a logger is set
\* (lines 47, 90, 96, 105: "if self.logger").
Event(e) == IF ops.logger THEN e ELSE "none"

\* History of the calls: declared[u][h] is the last registration of (u, h)
\* since u or the whole registry was last cleared, call is the last call.
Undeclared == [reg |-> FALSE, func |-> "none", methods |-> NoMethods]
NoCall == [name |-> "none", unit |-> "a", handler |-> "h1", event |-> "none",
           raised |-> FALSE]

\* APIRegistry() (lines 22-27): no unit, no logger. Nothing else runs.
InitRegistry ==
    /\ source = [u \in Units |-> "v1"]
    /\ registered_functions = [u \in Units |-> AbsentUnit]
    /\ reload_queue = << >>
    /\ processing_modules = {}
    /\ since_reload = [u \in Units |-> MinReloadInterval]
    /\ consumer = IdleConsumer
    /\ work_queue = << >>
    /\ workers = [w \in Workers |-> IdleWorker]
    /\ pending = [u \in Units |-> 0]
    /\ req = IdleReq
    /\ ops = [NoOps EXCEPT !.logger = FALSE]
    /\ hist = [declared |-> [u \in Units |-> [h \in HandlerNames |-> Undeclared]],
               call |-> NoCall]

\* register_function(u, h, f, supported_methods=m), lines 33-53.
register_function(u, h, f, m) ==
    /\ registered_functions' = Registered(u, h, Entry(f, m))
    /\ hist' = [hist EXCEPT
                  !.declared[u][h] = [reg |-> TRUE, func |-> f, methods |-> m],
                  !.call = [name |-> "register", unit |-> u, handler |-> h,
                            event |-> Event("FUNCTION_REGISTERED"),
                            raised |-> FALSE]]
    /\ UNCHANGED << source, reload_queue, processing_modules, since_reload,
                    consumer, work_queue, workers, pending, req, ops >>

\* @api_function(GET=.., POST=..) on function h of unit u, decorators.py
\* lines 21-50: a ValueError if neither method is supported, else
\* register_function with both flags.
api_function(u, h, f, m) ==
    /\ IF DeclRaises(DecoratorFlags(m))
       THEN /\ hist' = [hist EXCEPT !.call =
                          [name |-> "decorate", unit |-> u, handler |-> h,
                           event |-> "none", raised |-> TRUE]]
            /\ UNCHANGED registered_functions
       ELSE /\ registered_functions' =
                 Registered(RegisterUnder(u), h, Entry(f, DecoratorFlags(m)))
            /\ hist' = [hist EXCEPT
                  !.declared[u][h] = [reg |-> TRUE, func |-> f, methods |-> m],
                  !.call = [name |-> "decorate", unit |-> u, handler |-> h,
                            event |-> Event("FUNCTION_REGISTERED"),
                            raised |-> FALSE]]
    /\ UNCHANGED << source, reload_queue, processing_modules, since_reload,
                    consumer, work_queue, workers, pending, req, ops >>

\* clear_module_functions(u), lines 83-99.
clear_module_functions(u) ==
    /\ registered_functions' = ClearedUnit(u)
    /\ hist' = [hist EXCEPT
                  !.declared[u] = [h \in HandlerNames |-> Undeclared],
                  !.call = [name |-> "clear", unit |-> u, handler |-> "h1",
                            event |-> IF registered_functions[u].present
                                      THEN Event("FUNCTIONS_CLEARED")
                                      ELSE Event("CLEAR_FAILED"),
                            raised |-> FALSE]]
    /\ UNCHANGED << source, reload_queue, processing_modules, since_reload,
                    consumer, work_queue, workers, pending, req, ops >>

\* clear_all_functions(), lines 101-106.
clear_all_functions ==
    /\ registered_functions' = [u \in Units |-> AbsentUnit]
    /\ hist' = [hist EXCEPT
                  !.declared = [u \in Units |-> [h \in HandlerNames |-> Undeclared]],
                  !.call = [name |-> "clear_all", unit |-> "a", handler |-> "h1",
                            event |-> Event("ALL_FUNCTIONS_CLEARED"),
                            raised |-> FALSE]]
    /\ UNCHANGED << source, reload_queue, processing_modules, since_reload,
                    consumer, work_queue, workers, pending, req, ops >>

\* set_logger(logger), lines 29-31.
set_logger ==
    /\ ~ops.logger
    /\ ops' = [ops EXCEPT !.logger = TRUE]
    /\ UNCHANGED << source, registered_functions, reload_queue,
                    processing_modules, since_reload, consumer, work_queue,
                    workers, pending, req, hist >>

NextRegistry ==
    \/ \E u \in Units, h \in HandlerNames, f \in Funcs, m \in MethodArgs :
         register_function(u, h, f, m)
    \/ \E u \in Units, h \in HandlerNames, f \in Funcs, m \in DecoratorArgs :
         api_function(u, h, f, m)
    \/ \E u \in Units : clear_module_functions(u)
    \/ clear_all_functions
    \/ set_logger

SpecRegistry == InitRegistry /\ [][NextRegistry]_vars

\* What the registry has to hold for a registration: the function and the
\* flags declared, POST only when none were declared.
Declared(u, h) == hist.declared[u][h]
DeclaredDesc(u, h) ==
    IF ~Declared(u, h).reg THEN NoDesc
    ELSE [ver |-> Declared(u, h).func,
          GET |-> IF Declared(u, h).methods.given
                  THEN Declared(u, h).methods.GET ELSE FALSE,
          POST |-> IF Declared(u, h).methods.given
                   THEN Declared(u, h).methods.POST ELSE TRUE]

\* C21: get(unit, handler) returns the descriptor of the last register of
\* that pair, whatever other registry calls were made since, until the unit
\* or the whole registry is cleared; a later register of the same pair
\* replaces the earlier one.
C21_RegisterThenGet ==
    \A u \in Units, h \in HandlerNames :
        get_function(u, h) = DeclaredDesc(u, h)

\* Unit a's h1 was registered twice with different functions, and unit b
\* was registered and cleared in between and since.
C21_Witness ==
    /\ hist.call.name = "clear" /\ hist.call.unit = "b"
    /\ Declared("a", "h1").reg /\ Declared("a", "h1").func = "v2"
    /\ get_function("a", "h1").ver = "v2"
    /\ Declared("a", "h2").reg


\* A step that is a call of clear_module_functions on a unit that is not in
\* the registry, and one on a unit that is.
ClearsAbsent ==
    hist'.call.name = "clear" /\ ~registered_functions[hist'.call.unit].present
ClearsPresent ==
    hist'.call.name = "clear" /\ registered_functions[hist'.call.unit].present

\* C22 as stated: clearing a unit without entries raises nothing, leaves
\* the whole registry unchanged and reports "nothing to clear", an outcome
\* other than the one of clearing a unit that had entries.
C22_ClearAbsentReports ==
    [][/\ ClearsAbsent
          => /\ ~hist'.call.raised
             /\ registered_functions' = registered_functions
             /\ hist'.call.event = "CLEAR_FAILED"
       /\ ClearsPresent => hist'.call.event # "CLEAR_FAILED"]_vars

\* C22: clearing a unit without entries raises nothing and leaves the whole
\* registry unchanged, however often it is repeated. The call returns
\* nothing in either case; the outcome is an event handed to the logger:
\* CLEAR_FAILED for a unit without entries, FUNCTIONS_CLEARED for a unit
\* that had some, and no event at all while the registry has no logger.
C22_ClearAbsentIsNoOp ==
    [][/\ ClearsAbsent
          => /\ ~hist'.call.raised
             /\ registered_functions' = registered_functions
             /\ hist'.call.event = IF ops.logger THEN "CLEAR_FAILED" ELSE "none"
       /\ ClearsPresent
          => hist'.call.event = IF ops.logger THEN "FUNCTIONS_CLEARED" ELSE "none"]_vars

\* With a logger set, a unit without entries was cleared while another unit
\* has entries.
C22_Witness ==
    /\ hist.call.name = "clear" /\ hist.call.event = "CLEAR_FAILED"
    /\ ops.logger
    /\ PresentUnits # {}

\* C23: clear_unit(u) removes every handler of u in one step, so that
\* get(u, h) returns nothing for every h right after it, and the entries of
\* every other unit are what they were.
C23_ClearRemovesUnitOnly ==
    [][hist'.call.name = "clear"
         => /\ \A h \in HandlerNames :
                 registered_functions'[hist'.call.unit].fns[h] = NoDesc
            /\ ~registered_functions'[hist'.call.unit].present
            /\ \A x \in Units \ {hist'.call.unit} :
                 registered_functions'[x] = registered_functions[x]]_vars

\* A unit that had two handlers was cleared while the other unit keeps its
\* two handlers.
C23_Witness ==
    /\ hist.call.name = "clear" /\ hist.call.event = "FUNCTIONS_CLEARED"
    /\ \E x \in Units \ {hist.call.unit} :
         \A h \in HandlerNames : get_function(x, h) # NoDesc
    /\ ~registered_functions[hist.call.unit].present

\* C24: supports(unit, handler, method) is true exactly when the pair is
\* registered and the flag declared for the method is true; a handler
\* registered without flags supports POST and not GET, and supports is
\* false for every pair that is not registered.
C24_SupportsIffFlag ==
    \A u \in Units, h \in HandlerNames, m \in MethodNames :
        supports_method(u, h, m) =
            /\ Declared(u, h).reg
            /\ IF Declared(u, h).methods.given
               THEN \/ Upper(m) = "GET" /\ Declared(u, h).methods.GET
                    \/ Upper(m) = "POST" /\ Declared(u, h).methods.POST
               ELSE Upper(m) = "POST"

\* One handler registered without flags, one with GET only, and a unit
\* that is not registered.
C24_Witness ==
    /\ Declared("a", "h1").reg /\ ~Declared("a", "h1").methods.given
    /\ supports_method("a", "h1", "POST") /\ ~supports_method("a", "h1", "GET")
    /\ Declared("a", "h2").reg /\ Declared("a", "h2").methods.given
    /\ ~Declared("a", "h2").methods.POST
    /\ supports_method("a", "h2", "get")
    /\ ~registered_functions["b"].present


\* C25: three schedule_reload calls for one unit made in quick succession
\* (all before the clock has advanced by one tick) are not followed by a
\* load of the unit before one debounce interval has passed since the
\* first call.
C25_LoadWaitsOneInterval ==
    \A u \in Units :
        /\ hist.unit[u].calls = 3
        /\ hist.unit[u].execs >= 1
        => hist.unit[u].since_first >= MinReloadInterval


\* C26: a name taken from the queue less than one interval after the unit's
\* last completed reload waits for the remainder of the interval only:
\* while the loop sleeps, the time since that reload plus the time left to
\* sleep is one interval, never more.
C26_SleepsRemainder ==
    consumer.pc = "sleep"
        => since_reload[consumer.unit] + consumer.sleep <= MinReloadInterval


\* ------------------------------------------- /api/reload, statement by
\* statement. _reload_all_modules calls clear_all_functions and
\* load_all_modules as plain functions: they execute on the loop's thread,
\* and every registry access of the imports is a step of that thread,
\* between which pool threads could run and during which the loop runs no
\* coroutine. todo holds the files load_all_modules has still to import
\* (glob gives them in no particular order).
InitReloadAll ==
    /\ source \in {f \in [Units -> {"v1", "syntax"}] : f["b"] = "v1"}
    /\ registered_functions = [u \in Units |-> LoadedState(source[u])]
    /\ reload_queue = << >>
    /\ processing_modules = {}
    /\ since_reload = [u \in Units |-> MinReloadInterval]
    /\ consumer = IdleConsumer
    /\ work_queue = << >>
    /\ workers = [t \in Workers \cup {LoopThread} |-> IdleWorker]
    /\ pending = [u \in Units |-> 0]
    /\ req = IdleReq
    /\ ops = NoOps
    /\ hist = [unit |-> [u \in Units |-> NoHist], edits |-> 0, events |-> 0,
               reqs |-> 0, dropped |-> 0, raised |-> 0, files |-> 0,
               admins |-> 0, created |-> {}, deleted |-> {}]

\* The loop's thread enters _load_module_sync(u) (line 186).
LoadOnLoop(u) ==
    [IdleWorker EXCEPT !.kind = "load", !.unit = u, !.pc = "read",
                       !.before = registered_functions]

\* _reload_all_modules lines 273-279: the token is verified, the registry
\* cleared and load_all_modules entered, all on the loop's thread.
ReloadAllBegin(tok) ==
    /\ LoopRuns
    /\ ops.admin.pc = "idle"
    /\ hist.admins < MaxAdminOps
    /\ hist' = [hist EXCEPT !.admins = @ + 1]
    /\ LET v == Verdict(tok)
           cfg == IF tok = "none" THEN ops.config ELSE ConfigReloaded
           r == [IdleAdmin EXCEPT !.op = "reload_all", !.token = tok]
       IN
       IF v # "ok"
       THEN /\ ops' = [ops EXCEPT !.config = cfg,
                         !.admin = [r EXCEPT !.pc = "responded", !.out = v]]
            /\ UNCHANGED << registered_functions, workers >>
       ELSE \E u \in Units :
            /\ registered_functions' = [x \in Units |-> AbsentUnit]
            /\ workers' = [workers EXCEPT ![LoopThread] = LoadOnLoop(u)]
            /\ ops' = [ops EXCEPT !.config = cfg,
                         !.admin = [r EXCEPT !.pc = "loading",
                                             !.todo = Units \ {u}]]
    /\ req' = Observed(registered_functions')
    /\ UNCHANGED << source, reload_queue, processing_modules, since_reload,
                    consumer, work_queue, pending >>

\* load_all_modules lines 181-186 and _reload_all_modules lines 281-285:
\* _load_module_sync has returned; the next file is imported, or the
\* response is built.
ReloadAllNext ==
    /\ LoopBusy
    /\ workers[LoopThread].pc = "done"
    /\ IF ops.admin.todo # {}
       THEN \E u \in ops.admin.todo :
            /\ workers' = [workers EXCEPT ![LoopThread] = LoadOnLoop(u)]
            /\ ops' = [ops EXCEPT !.admin.todo = @ \ {u}]
       ELSE /\ workers' = [workers EXCEPT ![LoopThread] = IdleWorker]
            /\ ops' = [ops EXCEPT !.admin =
                         [@ EXCEPT !.pc = "responded", !.out = "200",
                                   !.success = ReloadAllSuccess(FailedLoads),
                                   !.failed = FailedLoads,
                                   !.modules = PresentUnits]]
    /\ UNCHANGED << source, registered_functions, reload_queue,
                    processing_modules, since_reload, consumer, work_queue,
                    pending, req, hist >>

NextReloadAll ==
    \/ \E tok \in Tokens : ReloadAllBegin(tok)
    \/ ReadSource(LoopThread)
    \/ RegisterEnsure(LoopThread)
    \/ RegisterStore(LoopThread)
    \/ ReloadAllNext
    \/ AdminClose
    \/ \E u \in Units, h \in HandlerNames, m \in Methods : ReqStart(u, h, m)
    \/ ReqSupports
    \/ ReqListBegin
    \/ ReqListNext
    \/ ReqClose

SpecReloadAll == InitReloadAll /\ [][NextReloadAll]_vars

\* C27: every load, unload and reload of a unit executes on a thread of
\* the pool, never on the loop's thread, whatever triggered it, so that no
\* request has to wait for a load: the loop's thread is never inside the
\* loader.
C27_LoadsRunOnPool ==
    \A t \in DOMAIN workers :
        workers[t].kind \in {"load", "reload", "unload"} => t \in Workers


\* C28: the processing set never holds more than one name, and it is empty
\* whenever the consumer loop waits on the queue or sleeps through a
\* debounce interval; so a schedule_reload made during such a sleep puts
\* its name on the queue.
C28_ProcessingSetOfOne ==
    /\ [](/\ Cardinality(processing_modules) <= 1
          /\ consumer.pc \in {"get", "sleep"} => processing_modules = {})
    /\ [][\A u \in Units :
            consumer.pc = "sleep"
              /\ hist'.unit[u].calls = hist.unit[u].calls + 1
            => reload_queue' = Append(reload_queue, u)]_vars

\* The loop has been sleeping for a tick or more, and the one call made for
\* some unit came less than a tick ago: its name is on the queue.
C28_Witness ==
    /\ consumer.pc = "sleep" /\ consumer.sleep < MinReloadInterval
    /\ processing_modules = {}
    /\ \E u \in Units :
         /\ hist.unit[u].calls = 1 /\ hist.unit[u].since_first = 0
         /\ InQueue(u)


\* C29: reloads are dispatched in the order their names were put on the
\* queue, one at a time. Names join the queue at its end and leave it at
\* its head, and only when the loop holds no name; the reload submitted to
\* the pool is the one of the name the loop holds, submitted while no other
\* queue-driven reload is in flight; while the loop sleeps for a name, every
\* later name stays on the queue and nothing is reloaded, whether or not
\* the later name would need a sleep itself.
C29_FifoOneAtATime ==
    /\ [](consumer.pc = "sleep" => \A u \in Units : InFlight(u) = 0)
    /\ [][/\ Len(reload_queue') > Len(reload_queue)
             => \E u \in Units : reload_queue' = Append(reload_queue, u)
          /\ Len(reload_queue') < Len(reload_queue)
             => /\ consumer.pc = "get"
                /\ reload_queue' = Tail(reload_queue)
                /\ consumer'.pc # "get" => consumer'.unit = Head(reload_queue)
          /\ Len(work_queue') > Len(work_queue)
             => /\ \A u \in Units : InFlight(u) = 0
                /\ consumer'.pc = "await"
                /\ work_queue' = Append(work_queue,
                                    [kind |-> "reload", unit |-> consumer'.unit])
                /\ \/ consumer.pc = "get" /\ consumer'.unit = Head(reload_queue)
                   \/ consumer.pc = "sleep" /\ consumer'.unit = consumer.unit]_vars

\* The loop sleeps for unit a, reloaded less than an interval ago, while
\* the name of unit b, which needs no sleep, waits on the queue behind it.
C29_Witness ==
    /\ consumer.pc = "sleep" /\ consumer.unit = "a"
    /\ NeedsDebounce("a") /\ ~NeedsDebounce("b")
    /\ reload_queue = << "b" >>
    /\ \A u \in Units : InFlight(u) = 0


\* C30: an operation that bypasses the queue never clears or registers
\* handlers of a unit while a queue-driven reload of the same unit is in
\* flight: no two pool threads are inside calls that clear or register
\* handlers of one unit at the same time.
C30_BypassNeverOverlapsReload ==
    \A w \in Workers, x \in Workers :
        ~ /\ workers[w].kind = "reload"
          /\ workers[w].unit \in processing_modules
          /\ workers[w].pc \in {"clear_chk", "clear_del", "read", "decorate", "store"}
          /\ workers[x].kind = "unload"
          /\ workers[x].unit = workers[w].unit
          /\ workers[x].pc \in {"clear_chk", "clear_del"}

=============================================================================
